---- MODULE Spec2Model ----
(***************************************************************************)
(* Successive convexification for rocket powered landing                   *)
(* (AerialNavigation/rocket_powered_landing/rocket_powered_landing.py).    *)
(*                                                                         *)
(* Numbers are fixed point.  Mass, position, velocity and thrust are held  *)
(* in units of 1/(10*K) of a model unit, angular rates in units of         *)
(* 1/(1000*K) rad, so that the weights (K-k)/K and k/K of the initial      *)
(* guess give exact integers.  Quaternion components are in units of       *)
(* 1/1000.  Python indices are 0-based, tuples here are 1-based: x[i] of   *)
(* the source is x[i+1] here.  Trajectory points keep the index 0..K-1.    *)
(***************************************************************************)
EXTENDS Integers, Sequences, FiniteSets, TLC

\* Trajectory points (the source runs with 50)
K == 3

\* mutants of the iteration cap: one pass more, one pass less
iterations_longer == 30 + 1
iterations_shorter == 30 - 1

\* Max solver iterations
iterations == 30

n_x == 14
n_u == 3

\* one tenth of a model unit, and one thousandth of a radian
Tenth == K
Milli == K
\* 1.0 as a quaternion component
QOne == 1000

Points == 0 .. (K - 1)
Intervals == 0 .. (K - 2)

(***************************************************************************)
(* Vector helpers (numpy slices, norms, dot products)                      *)
(***************************************************************************)
Slice(x, a, b) == [i \in 1 .. (b - a + 1) |-> x[a + i - 1]]

RECURSIVE SumSq(_)
SumSq(v) == IF v = <<>> THEN 0 ELSE v[1] * v[1] + SumSq(Tail(v))

RECURSIVE Dot(_, _)
Dot(a, b) == IF a = <<>> THEN 0 ELSE a[1] * b[1] + Dot(Tail(a), Tail(b))

Scaled(c, v) == [i \in 1 .. Len(v) |-> c * v[i]]

Abs(n) == IF n < 0 THEN -n ELSE n

\* np.deg2rad, in thousandths of a radian
deg2rad(d) == IF d < 0 THEN -((-d * 17453) \div 1000) ELSE (d * 17453) \div 1000

\* cos and sin of half an angle given in degrees, in units of 1/QOne
CosHalf(a) == IF a = 0 THEN 1000 ELSE 966
SinHalf(a) == IF a = 0 THEN 0 ELSE IF a > 0 THEN 259 ELSE -259

\* product of three fixed-point numbers
Mul3(a, b, c) ==
    LET p == a * b * c
    IN  IF p < 0 THEN -((-p) \div (QOne * QOne)) ELSE p \div (QOne * QOne)

(***************************************************************************)
(* Rocket_Model_6DoF                                                       *)
(***************************************************************************)
euler_to_quat(a) ==
    LET cy == CosHalf(a[2])
        sy == SinHalf(a[2])
        cr == CosHalf(a[1])
        sr == SinHalf(a[1])
        cp == CosHalf(a[3])
        sp == SinHalf(a[3])
    IN  << Mul3(cy, cr, cp) + Mul3(sy, sr, sp),
           Mul3(cy, sr, cp) - Mul3(sy, cr, sp),
           Mul3(sy, cr, cp) - Mul3(cy, sr, sp),
           Mul3(cy, cr, sp) + Mul3(sy, sr, cp) >>

m_wet == 30 * Tenth
m_dry == 22 * Tenth
t_f_guess == 100 * Tenth

r_I_final == << 0, 0, 0 >>
v_I_final == << -1 * Tenth, 0, 0 >>
q_B_I_final == euler_to_quat(<< 0, 0, 0 >>)
w_B_final == << deg2rad(0) * Milli, deg2rad(0) * Milli, deg2rad(0) * Milli >>

w_B_max == deg2rad(60) * Milli

\* tan(20 deg) = 0.36397 as the fraction 4/11, cos(90 deg) = 0
tan_delta_max == [num |-> 4, den |-> 11]
cos_theta_max == 0 * QOne
tan_gamma_gs == [num |-> 4, den |-> 11]

T_max == 50 * Tenth
T_min == 3 * Tenth

g_I == << -1, 0, 0 >>

\* The draws of rng in set_random_initial_state: positions and velocities
\* in tenths, the lateral velocity factor in tenths, angles in degrees.
RngDraws ==
    { [rx |-> 30, ry |-> 10, rz |-> -20, vx |-> -10, fy |-> -5, fz |-> -2,
       a1 |-> 30, a2 |-> 0, w1 |-> 20, w2 |-> -20],
      [rx |-> 40, ry |-> 0, rz |-> 10, vx |-> -5, fy |-> -2, fz |-> -5,
       a1 |-> -30, a2 |-> 30, w1 |-> 0, w2 |-> 20] }

set_random_initial_state(rng) ==
    LET r_I_init == << rng.rx * Tenth, rng.ry * Tenth, rng.rz * Tenth >>
    IN  [r_I_init |-> r_I_init,
         v_I_init |-> << rng.vx * Tenth,
                         (rng.fy * r_I_init[2]) \div 10,
                         (rng.fz * r_I_init[3]) \div 10 >>,
         q_B_I_init |-> euler_to_quat(<< 0, rng.a1, rng.a2 >>),
         w_B_init |-> << deg2rad(0) * Milli, deg2rad(rng.w1) * Milli,
                         deg2rad(rng.w2) * Milli >>]

x_init_of(rng) ==
    LET s == set_random_initial_state(rng)
    IN  << m_wet >> \o s.r_I_init \o s.v_I_init \o s.q_B_I_init \o s.w_B_init

x_final == << m_dry >> \o r_I_final \o v_I_final \o q_B_I_final \o w_B_final

\* alpha1 * a + alpha2 * b with alpha1 = (K - k) / K and alpha2 = k / K
Interpolate(k, a, b) ==
    [i \in 1 .. Len(a) |-> ((K - k) * a[i] + k * b[i]) \div K]

initialize_trajectory_point(k, xi, xf) ==
    LET m_k == Interpolate(k, Slice(xi, 1, 1), Slice(xf, 1, 1))
        r_I_k == Interpolate(k, Slice(xi, 2, 4), Slice(xf, 2, 4))
        v_I_k == Interpolate(k, Slice(xi, 5, 7), Slice(xf, 5, 7))
        q_B_I_k == << 1 * QOne, 0, 0, 0 >>
        w_B_k == Interpolate(k, Slice(xi, 12, 14), Slice(xf, 12, 14))
    IN  [x |-> m_k \o r_I_k \o v_I_k \o q_B_I_k \o w_B_k,
         u |-> Scaled(m_k[1], Scaled(-1, g_I))]

initialize_trajectory(xi, xf) ==
    [X |-> [k \in Points |-> initialize_trajectory_point(k, xi, xf).x],
     U |-> [k \in Points |-> initialize_trajectory_point(k, xi, xf).u]]

\* cvxpy.norm(v) <= (num / den) * s, without the square root
NormLeqFrac(v, num, den, s) == s >= 0 /\ den * den * SumSq(v) <= num * num * s * s

\* mutant: the lateral thrust of the last point is not constrained
BoundaryConditions_free_thrust(self, X_v, U_v) ==
    /\ X_v[0][1] = self.x_init[1]
    /\ Slice(X_v[0], 2, 4) = Slice(self.x_init, 2, 4)
    /\ Slice(X_v[0], 5, 7) = Slice(self.x_init, 5, 7)
    /\ Slice(X_v[0], 12, 14) = Slice(self.x_init, 12, 14)
    /\ Slice(X_v[K - 1], 2, 14) = Slice(self.x_final, 2, 14)

\* Boundary conditions
BoundaryConditions(self, X_v, U_v) ==
    /\ X_v[0][1] = self.x_init[1]
    /\ Slice(X_v[0], 2, 4) = Slice(self.x_init, 2, 4)
    /\ Slice(X_v[0], 5, 7) = Slice(self.x_init, 5, 7)
    \* initial orientation is free
    /\ Slice(X_v[0], 12, 14) = Slice(self.x_init, 12, 14)
    \* final mass is free
    /\ Slice(X_v[K - 1], 2, 14) = Slice(self.x_final, 2, 14)
    /\ Slice(U_v[K - 1], 2, 3) = << 0, 0 >>

\* State constraints: minimum mass, glideslope, maximum angle, maximum
\* angular velocity
StateConstraints(X_v) ==
    \A k \in Points :
        /\ X_v[k][1] >= m_dry
        /\ NormLeqFrac(Slice(X_v[k], 3, 4), tan_gamma_gs.den, tan_gamma_gs.num,
                       X_v[k][2])
        /\ 2 * SumSq(Slice(X_v[k], 10, 11)) <= QOne * (QOne - cos_theta_max)
        /\ SumSq(Slice(X_v[k], 12, 14)) <= w_B_max * w_B_max

\* mutant: no upper thrust constraint
ControlConstraints_no_upper(U_v) ==
    \A k \in Points :
        NormLeqFrac(Slice(U_v[k], 2, 3), tan_delta_max.num, tan_delta_max.den,
                    U_v[k][1])

\* Control constraints: gimbal angle, upper thrust
ControlConstraints(U_v) ==
    \A k \in Points :
        /\ NormLeqFrac(Slice(U_v[k], 2, 3), tan_delta_max.num, tan_delta_max.den,
                       U_v[k][1])
        /\ SumSq(U_v[k]) <= T_max * T_max

\* mutant: the lower thrust constraint is left out
LowerThrustConstraint_dropped(U_v, U_last_p, nan) == TRUE

\* linearized lower thrust constraint; U_last_p[:, k] / norm(U_last_p[:, k])
\* is nan when the norm is zero, and the constraint then holds or fails as
\* the solver happens to treat it (nan)
LowerThrustConstraint(U_v, U_last_p, nan) ==
    \A k \in Points :
        IF SumSq(U_last_p[k]) = 0
        THEN nan
        ELSE /\ Dot(U_last_p[k], U_v[k]) >= 0
             /\ Dot(U_last_p[k], U_v[k]) * Dot(U_last_p[k], U_v[k])
                    >= T_min * T_min * SumSq(U_last_p[k])

\* the outcomes of a nan in the parameters of the lower thrust constraint
NanOutcomes(U_last_p) ==
    IF \E k \in Points : SumSq(U_last_p[k]) = 0 THEN BOOLEAN ELSE {FALSE}

get_constraints(self, X_v, U_v, X_last_p, U_last_p, nan) ==
    /\ BoundaryConditions(self, X_v, U_v)
    /\ StateConstraints(X_v)
    /\ ControlConstraints(U_v)
    /\ LowerThrustConstraint(U_v, U_last_p, nan)

Rocket_Model_6DoF(rng) == [x_init |-> x_init_of(rng), x_final |-> x_final]

(***************************************************************************)
(* Integrator                                                              *)
(***************************************************************************)
\* vector indices for flat matrices (python slice(a, b) is a+1 .. b here)
x_end == n_x
A_bar_end == n_x * (1 + n_x)
B_bar_end == n_x * (1 + n_x + n_u)
C_bar_end == n_x * (1 + n_x + n_u + n_u)
S_bar_end == n_x * (1 + n_x + n_u + n_u + 1)
z_bar_end == n_x * (1 + n_x + n_u + n_u + 2)
x_ind == 1 .. x_end
A_bar_ind == (x_end + 1) .. A_bar_end
B_bar_ind == (A_bar_end + 1) .. B_bar_end
C_bar_ind == (B_bar_end + 1) .. C_bar_end
S_bar_ind == (C_bar_end + 1) .. S_bar_end
z_bar_ind == (S_bar_end + 1) .. z_bar_end

\* np.eye(n).reshape(-1) and np.zeros(n)
EyeFlat(n) == [i \in 1 .. n * n |-> IF (i - 1) \div n = (i - 1) % n THEN 1 ELSE 0]
Zeros(n) == [i \in 1 .. n |-> 0]

BlockLen(ind) == Cardinality(ind)

\* integration initial condition: np.zeros, then V0[A_bar_ind] = eye.
\* The flat vector is kept as its six slices.
V0_init ==
    [x |-> Zeros(BlockLen(x_ind)),
     A_bar |-> EyeFlat(n_x),
     B_bar |-> Zeros(BlockLen(B_bar_ind)),
     C_bar |-> Zeros(BlockLen(C_bar_ind)),
     S_bar |-> Zeros(BlockLen(S_bar_ind)),
     z_bar |-> Zeros(BlockLen(z_bar_ind))]

\* mutant: the x block is written only while the buffer is still all zero
SetXBlock_once(V, x) == IF V.x = Zeros(BlockLen(x_ind)) THEN [V EXCEPT !.x = x] ELSE V

\* self.V0[self.x_ind] = X[:, k]
SetXBlock(V, x) == [V EXCEPT !.x = x]

\* scipy's odeint: the value of the augmented vector at the end of the
\* interval is a function of the initial vector and of the args; odeint
\* works on a copy of y0
odeint(y0, u_t0, u_t1, sigma_) ==
    [y0 |-> y0, u_t0 |-> u_t0, u_t1 |-> u_t1, sigma |-> sigma_]

\* mutant: a column already filled by an earlier call is kept
RECURSIVE calculate_discretization_loop_cached(_, _, _, _, _, _)
calculate_discretization_loop_cached(k, last, self, X_, U_, sigma_) ==
    IF k > last
    THEN self
    ELSE LET seeded == SetXBlock(self.V0, X_[k])
             V == odeint(seeded, U_[k], U_[k + 1], sigma_)
         IN  calculate_discretization_loop_cached(k + 1, last,
                 [V0 |-> seeded,
                  bars |-> IF self.bars[k] # << >> THEN self.bars
                           ELSE [self.bars EXCEPT ![k] = V],
                  calls |-> [self.calls EXCEPT ![k] = seeded]],
                 X_, U_, sigma_)

\* The loop body of calculate_discretization for the intervals k .. last:
\* seed the x block of V0, integrate, store the columns of interval k.
\* calls records the initial vector handed to odeint for each interval.
RECURSIVE calculate_discretization_loop(_, _, _, _, _, _)
calculate_discretization_loop(k, last, self, X_, U_, sigma_) ==
    IF k > last
    THEN self
    ELSE LET seeded == SetXBlock(self.V0, X_[k])
             V == odeint(seeded, U_[k], U_[k + 1], sigma_)
         IN  calculate_discretization_loop(k + 1, last,
                 [V0 |-> seeded,
                  bars |-> [self.bars EXCEPT ![k] = V],
                  calls |-> [self.calls EXCEPT ![k] = seeded]],
                 X_, U_, sigma_)

calculate_discretization(self, X_, U_, sigma_) ==
    calculate_discretization_loop(0, K - 2, self, X_, U_, sigma_)

(***************************************************************************)
(* Convex subproblem and its solver                                        *)
(***************************************************************************)
SolverStatuses == {"optimal", "infeasible", "solver_error"}

WithQuat(x, q) == [i \in 1 .. n_x |-> IF i \in 8 .. 11 THEN q[i - 7] ELSE x[i]]
WithMass(x, m) == [x EXCEPT ![1] = m]
WithRate(x, w) == [i \in 1 .. n_x |-> IF i \in 12 .. 14 THEN w[i - 11] ELSE x[i]]

\* a trajectory with the first point a, the inner points b, the last point c
Traj(a, b, c) == [k \in Points |-> IF k = 0 THEN a ELSE IF k = K - 1 THEN c ELSE b]

\* The answers the solver's variables are drawn from.  The first set varies
\* what the constraints leave free, each member of the second set leaves
\* one constraint of the model unmet.
XInner(self) == initialize_trajectory_point(1, self.x_init, self.x_final).x
XGrid(self) ==
    { Traj(a, XInner(self), c) :
        a \in { self.x_init, WithQuat(self.x_init, << QOne, 0, 0, 0 >>) },
        c \in { self.x_final, WithMass(self.x_final, 25 * Tenth) } }
    \cup
    { Traj(self.x_final, XInner(self), self.x_final),
      Traj(self.x_init, XInner(self), self.x_init),
      Traj(self.x_init, WithMass(self.x_final, m_dry - Tenth), self.x_final),
      Traj(self.x_init, WithRate(self.x_final, << 0, w_B_max + Milli, 0 >>),
           self.x_final) }

UAxial == << 30 * Tenth, 0, 0 >>
UGrid ==
    { Traj(a, UAxial, UAxial) : a \in { UAxial, << 10 * Tenth, 3 * Tenth, 0 >> } }
    \cup
    { Traj(UAxial, << 0, 0, 0 >>, UAxial),
      Traj(UAxial, << 10 * Tenth, 5 * Tenth, 0 >>, UAxial),
      Traj(UAxial, << 51 * Tenth, 0, 0 >>, UAxial),
      Traj(UAxial, UAxial, << 10 * Tenth, 3 * Tenth, 0 >>),
      Traj(UAxial, UAxial, << 2 * Tenth, 0, 0 >>) }

SigmaGrid == { 80 * Tenth, t_f_guess, (-10) * Tenth }

NoValue == [X |-> << >>, U |-> << >>, sigma |-> 0]

\* What a solve that did not end optimal leaves in the variables
FailedOutputs(self) ==
    { NoValue,
      [X |-> [k \in Points |-> self.x_final],
       U |-> [k \in Points |-> << 0, 0, 0 >>],
       sigma |-> (-10) * Tenth] }

\* The constraints of the subproblem: the model's constraints and a
\* positive duration.  The dynamics equalities carry a free virtual control
\* and restrict nothing.
SubproblemConstraints(self, X_v, U_v, sigma_v, X_last_p, U_last_p, nan) ==
    /\ get_constraints(self, X_v, U_v, X_last_p, U_last_p, nan)
    /\ sigma_v > 0

\* convergence metric: the norm of the change of states, controls and
\* duration
\* the largest member of a finite set of numbers
MaxOf(S) == CHOOSE x \in S : \A y \in S : y <= x

\* the infinity norm of the change
delta_norm(X_new, U_new, sigma_new, X_old, U_old, sigma_old) ==
    MaxOf({ Abs(X_new[k][i] - X_old[k][i]) : k \in Points, i \in 1 .. n_x }
          \cup { Abs(U_new[k][i] - U_old[k][i]) : k \in Points, i \in 1 .. n_u }
          \cup { Abs(sigma_new - sigma_old) })

tolerance == 1

(***************************************************************************)
(* The outer loop                                                          *)
(***************************************************************************)
VARIABLES
    m,          \* the Rocket_Model_6DoF: x_init, x_final
    state,      \* INIT, ITERATING, CONVERGED, FAILED, or ABORTED by a failure
    step,       \* within a pass: "discretize" or "solve"
    it,         \* passes started
    X, U, sigma,        \* the stored trajectory
    integrator,         \* V0, the bar buffers, and the odeint calls of the last call
    solver_status,      \* status of the last solve
    sol,                \* what the last solve left in the variables
    delta,              \* convergence metric of the last pass, -1 before it
    worsened,           \* the last pass had a larger metric than the one before
    failure,            \* "none", "discretization" or "subproblem"
    result              \* what the loop returned

vars == << m, state, step, it, X, U, sigma, integrator, solver_status, sol,
           delta, worsened, failure, result >>

NoResult == [status |-> "none"]

\* Integrator.__init__
Integrator_init ==
    [V0 |-> V0_init,
     \* A_bar, B_bar, C_bar, S_bar, z_bar: << >> is a column still all zero
     bars |-> [k \in Intervals |-> << >>],
     calls |-> [k \in Intervals |-> << >>]]

Init ==
    /\ m \in { Rocket_Model_6DoF(rng) : rng \in RngDraws }
    \* np.empty: whatever the memory held
    /\ \E fill \in {0, 7} :
          /\ X = [k \in Points |-> [i \in 1 .. n_x |-> fill]]
          /\ U = [k \in Points |-> [i \in 1 .. n_u |-> fill]]
    /\ sigma = 0
    /\ state = "INIT"
    /\ step = "discretize"
    /\ it = 0
    /\ integrator = Integrator_init
    /\ solver_status = "none"
    /\ sol = NoValue
    /\ delta = -1
    /\ worsened = FALSE
    /\ failure = "none"
    /\ result = NoResult

\* INIT: initial guess trajectory and duration
Initialize ==
    /\ state = "INIT"
    /\ X' = initialize_trajectory(m.x_init, m.x_final).X
    /\ U' = initialize_trajectory(m.x_init, m.x_final).U
    /\ sigma' = t_f_guess
    /\ state' = "ITERATING"
    /\ UNCHANGED << m, step, it, integrator, solver_status, sol, delta,
                    worsened, failure, result >>

\* A pass starts: the discretization of the stored trajectory
Discretize ==
    /\ state = "ITERATING"
    /\ step = "discretize"
    /\ it < iterations
    /\ it' = it + 1
    /\ integrator' = calculate_discretization(integrator, X, U, sigma)
    /\ step' = "solve"
    /\ UNCHANGED << m, state, X, U, sigma, solver_status, sol, delta,
                    worsened, failure, result >>

\* The integrator diverges in interval kf: fatal for the run
DiscretizeFails ==
    /\ state = "ITERATING"
    /\ step = "discretize"
    /\ it < iterations
    /\ it' = it + 1
    /\ \E kf \in Intervals :
          integrator' = calculate_discretization_loop(0, kf - 1, integrator,
                                                      X, U, sigma)
    /\ state' = "ABORTED"
    /\ failure' = "discretization"
    /\ UNCHANGED << m, step, X, U, sigma, solver_status, sol, delta,
                    worsened, result >>

\* mutant: a step with a larger metric than the one before is rejected
SolveOptimal_ratio_test ==
    /\ state = "ITERATING"
    /\ step = "solve"
    /\ \E X_v \in XGrid(m), U_v \in UGrid, sigma_v \in SigmaGrid,
          nan \in NanOutcomes(U) :
          /\ SubproblemConstraints(m, X_v, U_v, sigma_v, X, U, nan)
          /\ LET d == delta_norm(X_v, U_v, sigma_v, X, U, sigma)
                 accept == delta < 0 \/ d <= delta
             IN  /\ sol' = [X |-> X_v, U |-> U_v, sigma |-> sigma_v]
                 /\ X' = IF accept THEN X_v ELSE X
                 /\ U' = IF accept THEN U_v ELSE U
                 /\ sigma' = IF accept THEN sigma_v ELSE sigma
                 /\ delta' = d
                 /\ worsened' = (delta >= 0 /\ d > delta)
                 /\ state' = IF d < tolerance THEN "CONVERGED" ELSE "ITERATING"
    /\ solver_status' = "optimal"
    /\ step' = "discretize"
    /\ UNCHANGED << m, it, integrator, failure, result >>

\* The subproblem is solved: the solution replaces the stored trajectory
SolveOptimal ==
    /\ state = "ITERATING"
    /\ step = "solve"
    /\ \E X_v \in XGrid(m), U_v \in UGrid, sigma_v \in SigmaGrid,
          nan \in NanOutcomes(U) :
          /\ SubproblemConstraints(m, X_v, U_v, sigma_v, X, U, nan)
          /\ LET d == delta_norm(X_v, U_v, sigma_v, X, U, sigma)
             IN  /\ sol' = [X |-> X_v, U |-> U_v, sigma |-> sigma_v]
                 /\ X' = X_v
                 /\ U' = U_v
                 /\ sigma' = sigma_v
                 /\ delta' = d
                 /\ worsened' = (delta >= 0 /\ d > delta)
                 /\ state' = IF d < tolerance THEN "CONVERGED" ELSE "ITERATING"
    /\ solver_status' = "optimal"
    /\ step' = "discretize"
    /\ UNCHANGED << m, it, integrator, failure, result >>

\* mutant: the variables of the failed solve are read back all the same
SolveFails_reads_back ==
    /\ state = "ITERATING"
    /\ step = "solve"
    /\ \E st \in SolverStatuses \ {"optimal"}, out \in FailedOutputs(m) :
          /\ solver_status' = st
          /\ sol' = out
          /\ X' = out.X
          /\ U' = out.U
          /\ sigma' = out.sigma
    /\ state' = "ABORTED"
    /\ failure' = "subproblem"
    /\ UNCHANGED << m, step, it, integrator, delta, worsened, result >>

\* The solver ends with another status: fatal for the run
SolveFails ==
    /\ state = "ITERATING"
    /\ step = "solve"
    /\ \E st \in SolverStatuses \ {"optimal"}, out \in FailedOutputs(m) :
          /\ solver_status' = st
          /\ sol' = out
    /\ state' = "ABORTED"
    /\ failure' = "subproblem"
    /\ UNCHANGED << m, step, it, X, U, sigma, integrator, delta, worsened,
                    result >>

\* The iteration cap is exhausted
CapReached ==
    /\ state = "ITERATING"
    /\ step = "discretize"
    /\ it >= iterations
    /\ state' = "FAILED"
    /\ UNCHANGED << m, step, it, X, U, sigma, integrator, solver_status, sol,
                    delta, worsened, failure, result >>

\* CONVERGED and FAILED return the stored trajectory with the status
Return ==
    /\ state \in {"CONVERGED", "FAILED"}
    /\ result = NoResult
    /\ result' = [status |-> state, X |-> X, U |-> U, sigma |-> sigma]
    /\ UNCHANGED << m, state, step, it, X, U, sigma, integrator,
                    solver_status, sol, delta, worsened, failure >>

Next ==
    \/ Initialize
    \/ Discretize
    \/ DiscretizeFails
    \/ SolveOptimal
    \/ SolveFails
    \/ CapReached
    \/ Return

Spec == Init /\ [][Next]_vars

(***************************************************************************)
(* Properties                                                              *)
(***************************************************************************)
Solved == solver_status = "optimal"
IsInitialGuess == state # "INIT" /\ solver_status = "none"
Identity == << 1000, 0, 0, 0 >>
FixedAtStart == {1} \cup (2 .. 7) \cup (12 .. 14)
FixedAtEnd == 2 .. 14

\* C1 as stated: the loop makes at most 30 passes and, once it has left
\* INIT and ITERATING, it is in CONVERGED or in FAILED.
C1_AsStated ==
    /\ it <= 30
    /\ state \notin {"INIT", "ITERATING"} => state \in {"CONVERGED", "FAILED"}

\* what is left to do: strictly smaller after every step of the loop
Rank ==
    (CASE state = "INIT" -> 4
       [] state = "ITERATING" -> 3
       [] state \in {"CONVERGED", "FAILED"} -> IF result = NoResult THEN 1 ELSE 0
       [] OTHER -> 0)
    + 2 * (30 - it)
    + (IF state = "ITERATING" /\ step = "solve" THEN 1 ELSE 0)

\* C1 amended: the loop makes at most 30 passes, a pass starts only in
\* ITERATING below the cap, every step brings the loop closer to its end,
\* it can only stop outside INIT and ITERATING, and it then is in
\* CONVERGED, in FAILED, or aborted by a fatal discretization or
\* subproblem failure.
C1_Terminates ==
    /\ [](it <= 30 /\ Rank >= 0)
    /\ [][it' # it => (state = "ITERATING" /\ it < 30 /\ it' = it + 1)]_vars
    /\ [][Rank' < Rank]_vars
    /\ [](state \in {"INIT", "ITERATING"} => ENABLED Next)
    /\ [](state \notin {"INIT", "ITERATING"}
            => (state \in {"CONVERGED", "FAILED"}
                \/ (state = "ABORTED" /\ failure \in {"discretization", "subproblem"})))

C1_Witness == state = "FAILED" /\ it = 30

\* C2: CONVERGED only with a metric below the tolerance, FAILED exactly at
\* an exhausted cap with the tolerance unmet and without a failure, and what
\* is returned is the stored trajectory with the status.
C2_Termination ==
    /\ [](state = "CONVERGED" => (delta >= 0 /\ delta < 1))
    /\ [](state = "FAILED" => (it = 30 /\ delta >= 1 /\ failure = "none"))
    /\ [][(state = "ITERATING" /\ step = "discretize" /\ it = 30)
            => state' = "FAILED"]_vars
    /\ [](result # NoResult
            => (/\ state \in {"CONVERGED", "FAILED"}
                /\ result = [status |-> state, X |-> X, U |-> U, sigma |-> sigma]))

C2_Witness == result # NoResult /\ result.status = "FAILED" /\ result.X = X

\* C3: a solve that does not end optimal aborts the run with a subproblem
\* failure; from then on no pass starts, the state stays ABORTED and the
\* stored trajectory is the one from before the failed solve.
C3_SolverFailureIsFatal ==
    [][solver_status' \in {"infeasible", "solver_error"}
         => (/\ state' = "ABORTED"
             /\ failure' = "subproblem"
             /\ it' = it
             /\ X' = X /\ U' = U /\ sigma' = sigma)]_vars

C3_Witness ==
    /\ solver_status = "infeasible"
    /\ state = "ABORTED"
    /\ it >= 2
    /\ sol # NoValue
    /\ sol.X # X

\* C4: after a solved pass states, controls and duration are all the
\* solution of that pass, and before the first solved pass they are all
\* the initial guess.
C4_ReplacedTogether ==
    /\ Solved => (X = sol.X /\ U = sol.U /\ sigma = sol.sigma)
    /\ IsInitialGuess
         => (/\ X = initialize_trajectory(m.x_init, m.x_final).X
             /\ U = initialize_trajectory(m.x_init, m.x_final).U
             /\ sigma = t_f_guess)

\* a pass whose metric was larger than that of the pass before was accepted
C4_Witness == Solved /\ worsened /\ delta >= 1 /\ X = sol.X /\ it >= 2

\* C5: after every solved pass the first point has the initial mass,
\* position, velocity and angular rate, the last point the final position,
\* velocity, attitude and angular rate, and the last thrust is axial.
C5_BoundaryConditions ==
    Solved =>
        /\ \A i \in FixedAtStart : X[0][i] = m.x_init[i]
        /\ \A i \in FixedAtEnd : X[K - 1][i] = m.x_final[i]
        /\ U[K - 1][2] = 0
        /\ U[K - 1][3] = 0

\* a converged run whose initial attitude and final mass are not the
\* configured ones
C5_Witness ==
    /\ state = "CONVERGED"
    /\ Slice(X[0], 8, 11) # Slice(m.x_init, 8, 11)
    /\ X[K - 1][1] # m.x_final[1]
    /\ X[0][1] = 30 * K

\* C6: every point of a converged trajectory has mass >= dry mass, thrust
\* <= T_max, lateral thrust <= tan(max gimbal) * axial thrust and angular
\* rate <= w_B_max.
C6_PathConstraints ==
    state = "CONVERGED" =>
        \A k \in Points :
            /\ X[k][1] >= m_dry
            /\ SumSq(U[k]) <= T_max * T_max
            /\ U[k][1] >= 0
            /\ 121 * (U[k][2] * U[k][2] + U[k][3] * U[k][3]) <= 16 * U[k][1] * U[k][1]
            /\ X[k][12] * X[k][12] + X[k][13] * X[k][13] + X[k][14] * X[k][14]
                   <= w_B_max * w_B_max

C6_Witness == state = "CONVERGED" /\ \E k \in Points : U[k][2] # 0

\* the augmented initial vector for the state x: x, identity, zeros
FreshSeed(x) ==
    [x |-> x,
     A_bar |-> [i \in 1 .. 196 |-> IF (i - 1) \div 14 = (i - 1) % 14 THEN 1 ELSE 0],
     B_bar |-> [i \in 1 .. 42 |-> 0],
     C_bar |-> [i \in 1 .. 42 |-> 0],
     S_bar |-> [i \in 1 .. 14 |-> 0],
     z_bar |-> [i \in 1 .. 14 |-> 0]]

C8_SeedOfEveryInterval ==
    \A k \in Intervals :
        integrator.calls[k] # << >> =>
            /\ \A r \in 1 .. 14, c \in 1 .. 14 :
                   integrator.calls[k].A_bar[(r - 1) * 14 + c] = IF r = c THEN 1 ELSE 0
            /\ \A i \in 1 .. 42 :
                   integrator.calls[k].B_bar[i] = 0 /\ integrator.calls[k].C_bar[i] = 0
            /\ \A i \in 1 .. 14 :
                   integrator.calls[k].S_bar[i] = 0 /\ integrator.calls[k].z_bar[i] = 0
            /\ (state = "ITERATING" /\ step = "solve") => integrator.calls[k].x = X[k]

\* the last interval of a later call, seeded after the buffer held other states
C8_Witness ==
    /\ state = "ITERATING"
    /\ step = "solve"
    /\ it >= 3
    /\ integrator.calls[K - 2].x = X[K - 2]
    /\ integrator.V0.x = X[K - 2]
    /\ X[0] # X[K - 2]

\* C9 as stated: the initial guess interpolates mass, position, velocity
\* and angular rate from the initial values at k = 0 to the final values at
\* k = K - 1, with the identity attitude at every point.
C9_AsStated ==
    IsInitialGuess =>
        /\ \A k \in Points : Slice(X[k], 8, 11) = Identity
        /\ \A i \in FixedAtStart : X[0][i] = m.x_init[i]
        /\ \A i \in FixedAtStart : X[K - 1][i] = m.x_final[i]
        /\ \A k \in Points : \A i \in FixedAtStart :
               \E a \in 0 .. K : K * X[k][i] = (K - a) * m.x_init[i] + a * m.x_final[i]

\* C10: the thrust of every point of the stored trajectory is non-zero
\* whenever a pass can use it as the parameter of the lower thrust
\* constraint: the initial guess has the norm m_k >= m_dry, a solution has
\* a norm of at least T_min.
C10_ThrustDirectionDefined ==
    state = "ITERATING" =>
        \A k \in Points :
            /\ SumSq(U[k]) > 0
            /\ IsInitialGuess => (SumSq(U[k]) = X[k][1] * X[k][1] /\ X[k][1] >= 22 * K)
            /\ Solved => SumSq(U[k]) >= (3 * K) * (3 * K)

\* a pass linearizes about a gimballed thrust of an earlier solution
C10_Witness ==
    /\ state = "ITERATING"
    /\ step = "solve"
    /\ Solved
    /\ U[0][2] # 0

====
